---- MODULE Spec2Model ----
(***************************************************************************)
(* Source / Destination resolution of cdk-docker-image-deployment.         *)
(*                                                                         *)
(* Strings the code inspects (tags, image URIs) are sequences of           *)
(* one-character strings.  Strings the code only interpolates (account,    *)
(* region, path) are atoms, and a template literal is the tuple of its     *)
(* pieces.                                                                 *)
(***************************************************************************)
EXTENDS Integers, Sequences, FiniteSets, TLC

VARIABLES
  sources,       \* per source object: <<>> before its construction, then the instance
  destinations,  \* per destination object: <<>> before its construction, then the instance
  assetChildren, \* scopes that already hold a child construct with id 'asset'
  grantCalls,    \* grantPull / grantPullPush calls received by the repositories, in order
  bindLog,       \* history: the binds that returned a config, in order
  last,          \* the last operation: its arguments and what it returned or threw
  tagArg,        \* argument of a stand-alone validateTag call
  tagResult      \* outcome of that call

vars == <<sources, destinations, assetChildren, grantCalls, bindLog, last, tagArg, tagResult>>

----------------------------------------------------------------------------
(* Bounds of the model *)

MaxShortTag == 3      \* tags of every length up to this one are enumerated
MaxOver == 2          \* long tags reach MaxTagLength + MaxOver characters
MaxBinds == 2         \* bind calls in one run

----------------------------------------------------------------------------
(* JavaScript values *)

\* `undefined` where a string is expected; no string equals it, its one
\* element is not a character
Undefined == <<"<undefined>">>

\* the string of n characters c
Repeat(c, n) == [i \in 1..n |-> c]

SeqsUpTo(S, n) == UNION {[1..k -> S] : k \in 0..n}

----------------------------------------------------------------------------
(* Destination.validateTag *)

Lower == {"a","b","c","d","e","f","g","h","i","j","k","l","m",
          "n","o","p","q","r","s","t","u","v","w","x","y","z"}
Upper == {"A","B","C","D","E","F","G","H","I","J","K","L","M",
          "N","O","P","Q","R","S","T","U","V","W","X","Y","Z"}
Digit == {"0","1","2","3","4","5","6","7","8","9"}

\* the character class [a-zA-Z0-9-_.]
TagClass == Lower \cup Upper \cup Digit \cup {"-", "_", "."}

\* the negated class [^-.]: any character but '-' and '.'
NotDashDot(c) == c \notin {"-", "."}

\* /^[^-.][a-zA-Z0-9-_.]+$/.test(tag): one character of [^-.], then one or
\* more characters of the class, up to the end of the string
TagRegexTest(tag) ==
  /\ Len(tag) >= 2
  /\ NotDashDot(tag[1])
  /\ \A i \in 2..Len(tag) : tag[i] \in TagClass

MaxTagLength == 128

\* the two Errors validateTag throws, named by what their message reports
TagTooLong == "Invalid tag: tags may contain a maximum of 128 characters"
TagInvalidCharacters == "Invalid tag: tags must contain alphanumeric characters and '-' '_' '.' only and must not begin with '.' or '-'"
Ok == "ok"

\* validateTag with its two checks in the opposite order
validateTagRegexFirst(tag) ==
  IF ~TagRegexTest(tag) THEN TagInvalidCharacters
  ELSE IF Len(tag) > MaxTagLength THEN TagTooLong
  ELSE Ok

validateTag(tag) ==
  IF Len(tag) > MaxTagLength THEN TagTooLong
  ELSE IF ~TagRegexTest(tag) THEN TagInvalidCharacters
  ELSE Ok


----------------------------------------------------------------------------
(* The environment the code is handed: stacks, scopes, repositories, roles *)

StackA == [account |-> "111111111111", region |-> "us-east-1"]
StackB == [account |-> "222222222222", region |-> "eu-west-1"]

\* constructs that can be passed to bind as `scope`
Scopes == {"scopeA", "scopeB"}

\* Stack.of(scope), reduced to the two attributes the code reads
StackOf(scope) == IF scope = "scopeA" THEN StackA ELSE StackB

\* ecr.IRepository: env.account, env.region, repositoryUri
RepoX == [repositoryName |-> "x", env |-> StackA, repositoryUri |-> <<"e","c","r","-","a","/","x">>]
RepoY == [repositoryName |-> "y", env |-> StackB, repositoryUri |-> <<"e","c","r","-","b","/","y">>]
Repositories == {RepoX, RepoY}

\* asset.repository of a DockerImageAsset created under `scope`: the asset
\* repository of that scope's stack
AssetRepository(scope) ==
  [repositoryName |-> "container-assets", env |-> StackOf(scope),
   repositoryUri |-> IF scope = "scopeA" THEN <<"e","c","r","-","a","/","a","s","s","e","t","s">>
                     ELSE <<"e","c","r","-","b","/","a","s","s","e","t","s">>]

\* iam.IGrantable / SourceContext.handlerRole
Roles == {"handlerRole", "otherRole"}

Paths == {"./image"}

\* the Source and the Destination objects of one deployment
SourceIds == {"source"}
DestinationIds == {"destination"}

PortUri == <<"r","e","g","i","s","t","r","y",".","e","x","a","m","p","l","e",".","c","o","m",":","5","0","0","0","/","r","e","p","o","/","i","m","a","g","e",":","v","1",".","2",".","3">>
PlainUri == <<"r","e","p","o","/","i","m","a","g","e",":","v","1">>

\* values asset.imageUri can take
ImageUris == {<<>>, <<"r">>, <<"r", ":">>, PlainUri, PortUri}

\* ecr_assets.DockerImageAsset handed to Source.asset: repository, imageUri
Assets == {[repository |-> AssetRepository(sc), imageUri |-> u] : sc \in Scopes, u \in ImageUris}

\* tags handed to Source.ecr
SourceTags == {<<"v","1">>, <<"a">>}

\* tags handed to Destination.ecr
DestinationTags ==
  { <<"v","1">>, <<"a">>, <<".","b">>, <<"$","a">>,
    Repeat("a", MaxTagLength), Repeat("a", MaxTagLength + 1) }

\* EcrSourceOptions | undefined: <<>> is "no options argument", otherwise
\* the one element is the options object, whose tag may be undefined
DestinationOptions == {<<>>, <<[tag |-> Undefined]>>} \cup {<<[tag |-> t]>> : t \in DestinationTags}

\* options?.tag
OptionsTag(options) == IF options = <<>> THEN Undefined ELSE options[1].tag

\* inputs of the stand-alone validateTag calls
TagAlphabet == {"a", "Z", "7", "_", "-", ".", "$"}
TagInputs ==
  SeqsUpTo(TagAlphabet, MaxShortTag) \cup
  { p \o Repeat(c, n) : p \in SeqsUpTo(TagAlphabet, 1), c \in TagAlphabet,
                        n \in (MaxTagLength - 2)..(MaxTagLength + MaxOver) }

----------------------------------------------------------------------------
(* Fn.split / Fn.select on concrete strings, repositoryUriForTag *)

HasSep(s, sep) == \E i \in 1..Len(s) : s[i] = sep

FirstSep(s, sep) == CHOOSE i \in 1..Len(s) : s[i] = sep /\ \A j \in 1..(i - 1) : s[j] # sep

\* Fn.split(sep, s) = s.split(sep): the pieces between the separators, one
\* piece (the whole string, possibly empty) when there is no separator
RECURSIVE FnSplit(_, _)
FnSplit(sep, s) ==
  IF HasSep(s, sep)
  THEN <<SubSeq(s, 1, FirstSep(s, sep) - 1)>> \o FnSplit(sep, SubSeq(s, FirstSep(s, sep) + 1, Len(s)))
  ELSE <<s>>

\* Fn.select(index, array) = array[index], zero-based; undefined past the end
FnSelect(index, array) == IF index + 1 <= Len(array) THEN array[index + 1] ELSE Undefined

\* Fn.select(1, Fn.split(':', imageUri))
TagOfUri(imageUri) == FnSelect(1, FnSplit(":", imageUri))

\* repository.repositoryUriForTag(tag): the tag suffix is dropped for a
\* falsy tag (undefined or empty)
repositoryUriForTag(repository, tag) ==
  IF tag = Undefined \/ tag = <<>> THEN repository.repositoryUri
  ELSE repository.repositoryUri \o <<":">> \o tag

----------------------------------------------------------------------------
(* LoginConfig *)

ECR == "ECR"

\* `aws ecr get-login-password --region ${region} | docker login --username
\* AWS --password-stdin ${accountId}.dkr.ecr.${region}.amazonaws.com`
LoginCommand(accountId, region) ==
  << "aws ecr get-login-password --region ", region,
     " | docker login --username AWS --password-stdin ", accountId,
     ".dkr.ecr.", region, ".amazonaws.com" >>

LoginConfig(accountId, region) ==
  [loginCommand |-> LoginCommand(accountId, region), loginType |-> ECR, region |-> region]

GrantPull(repository, grantee) ==
  [method |-> "grantPull", repository |-> repository, grantee |-> grantee]

GrantPullPush(repository, grantee) ==
  [method |-> "grantPullPush", repository |-> repository, grantee |-> grantee]

----------------------------------------------------------------------------
(* Constructors.  Each yields what was thrown (Ok when nothing was) and    *)
(* the instance, <<>> when the constructor threw.                          *)

DirectorySource(path) ==
  [threw |-> Ok, instance |-> <<[kind |-> "directory", path |-> path]>>]

EcrSource(repository, tag) ==
  [threw |-> Ok, instance |-> <<[kind |-> "ecr", repository |-> repository, tag |-> tag]>>]

AssetSource(asset) ==
  [threw |-> Ok,
   instance |-> <<[kind |-> "asset", repository |-> asset.repository,
                   tag |-> TagOfUri(asset.imageUri)]>>]

\* the constructor without its call of validateTag
EcrDestinationNoValidate(repository, options) ==
  IF OptionsTag(options) # Undefined
  THEN [threw |-> Ok, instance |-> <<[repository |-> repository, options |-> options]>>]
  ELSE [threw |-> Ok, instance |-> <<[repository |-> repository, options |-> <<>>]>>]

\* the constructor without `this.options = options`
EcrDestinationDropsOptions(repository, options) ==
  IF OptionsTag(options) # Undefined /\ validateTag(OptionsTag(options)) # Ok
  THEN [threw |-> validateTag(OptionsTag(options)), instance |-> <<>>]
  ELSE [threw |-> Ok, instance |-> <<[repository |-> repository, options |-> <<>>]>>]

EcrDestination(repository, options) ==
  IF OptionsTag(options) # Undefined
  THEN IF validateTag(OptionsTag(options)) # Ok
       THEN [threw |-> validateTag(OptionsTag(options)), instance |-> <<>>]
       ELSE [threw |-> Ok, instance |-> <<[repository |-> repository, options |-> options]>>]
  ELSE [threw |-> Ok, instance |-> <<[repository |-> repository, options |-> <<>>]>>]

----------------------------------------------------------------------------
(* bind.  Each yields what was thrown, the grant calls it made and the     *)
(* config it returned, <<>> when it threw.                                 *)

ConstructExists == "There is already a Construct with name 'asset'"

\* `children` are the scopes that hold an 'asset' child; `imageUri` is the
\* imageUri of the DockerImageAsset the bind creates
DirectorySourceBind(self, scope, role, children, imageUri) ==
  IF scope \in children
  THEN [threw |-> ConstructExists, calls |-> <<>>, config |-> <<>>]
  ELSE [threw |-> Ok,
        calls |-> <<GrantPull(AssetRepository(scope), role)>>,
        config |-> <<[imageUri |-> imageUri,
                      imageTag |-> TagOfUri(imageUri),
                      loginConfig |-> LoginConfig(StackOf(scope).account, StackOf(scope).region)]>>]

\* EcrSource.bind calling grantPullPush where the code calls grantPull
EcrSourceBindPullPush(self, scope, role) ==
  [threw |-> Ok,
   calls |-> <<GrantPullPush(self.repository, role)>>,
   config |-> <<[imageUri |-> repositoryUriForTag(self.repository, self.tag),
                 imageTag |-> self.tag,
                 loginConfig |-> LoginConfig(self.repository.env.account, self.repository.env.region)]>>]

EcrSourceBind(self, scope, role) ==
  [threw |-> Ok,
   calls |-> <<GrantPull(self.repository, role)>>,
   config |-> <<[imageUri |-> repositoryUriForTag(self.repository, self.tag),
                 imageTag |-> self.tag,
                 loginConfig |-> LoginConfig(self.repository.env.account, self.repository.env.region)]>>]

AssetSourceBind(self, scope, role) ==
  [threw |-> Ok,
   calls |-> <<GrantPull(self.repository, role)>>,
   config |-> <<[imageUri |-> repositoryUriForTag(self.repository, self.tag),
                 imageTag |-> self.tag,
                 loginConfig |-> LoginConfig(StackOf(scope).account, StackOf(scope).region)]>>]

\* EcrDestination.bind without its grantPullPush call
EcrDestinationBindNoGrant(self, role) ==
  [threw |-> Ok,
   calls |-> <<>>,
   config |-> <<[destinationUri |-> self.repository.repositoryUri,
                 loginConfig |-> LoginConfig(self.repository.env.account, self.repository.env.region),
                 destinationTag |-> OptionsTag(self.options)]>>]

EcrDestinationBind(self, role) ==
  [threw |-> Ok,
   calls |-> <<GrantPullPush(self.repository, role)>>,
   config |-> <<[destinationUri |-> self.repository.repositoryUri,
                 loginConfig |-> LoginConfig(self.repository.env.account, self.repository.env.region),
                 destinationTag |-> OptionsTag(self.options)]>>]

----------------------------------------------------------------------------
(* The state machine *)

None == "-"

\* the record of an operation: what was called with which arguments, whether
\* the instance had been bound before, and what came back
Op(op, id, scope, role, options, uri, rebind, threw, calls, config) ==
  [op |-> op, id |-> id, scope |-> scope, role |-> role, options |-> options,
   uri |-> uri, rebind |-> rebind, threw |-> threw, calls |-> calls, config |-> config]

NoOp == Op("none", None, None, None, <<>>, Undefined, FALSE, Ok, <<>>, <<>>)

\* the instance has returned a config from bind before
Bound(id) == \E k \in 1..Len(bindLog) : bindLog[k].id = id

Init ==
  /\ sources = [id \in SourceIds |-> <<>>]
  /\ destinations = [id \in DestinationIds |-> <<>>]
  /\ assetChildren = {}
  /\ grantCalls = <<>>
  /\ bindLog = <<>>
  /\ last = NoOp
  /\ tagArg = <<>>
  /\ tagResult = None

\* id = Source.directory(path)
SourceDirectory(id, path) ==
  /\ sources[id] = <<>>
  /\ sources' = [sources EXCEPT ![id] = <<[self |-> DirectorySource(path).instance[1], uri |-> Undefined]>>]
  /\ last' = Op("Source.directory", id, None, None, <<>>, Undefined, FALSE, Ok, <<>>, <<>>)
  /\ UNCHANGED <<destinations, assetChildren, grantCalls, bindLog, tagArg, tagResult>>

\* id = Source.ecr(repository, tag)
SourceEcr(id, repository, tag) ==
  /\ sources[id] = <<>>
  /\ sources' = [sources EXCEPT ![id] = <<[self |-> EcrSource(repository, tag).instance[1], uri |-> Undefined]>>]
  /\ last' = Op("Source.ecr", id, None, None, <<>>, Undefined, FALSE, Ok, <<>>, <<>>)
  /\ UNCHANGED <<destinations, assetChildren, grantCalls, bindLog, tagArg, tagResult>>

\* id = Source.asset(asset); the entry remembers the asset's imageUri
SourceAsset(id, asset) ==
  /\ sources[id] = <<>>
  /\ sources' = [sources EXCEPT ![id] = <<[self |-> AssetSource(asset).instance[1], uri |-> asset.imageUri]>>]
  /\ last' = Op("Source.asset", id, None, None, <<>>, asset.imageUri, FALSE, Ok, <<>>, <<>>)
  /\ UNCHANGED <<destinations, assetChildren, grantCalls, bindLog, tagArg, tagResult>>

\* id = Destination.ecr(repository, options); the entry remembers the options
\* given; nothing is assigned when the constructor throws
DestinationEcr(id, repository, options) ==
  /\ destinations[id] = <<>>
  /\ LET r == EcrDestination(repository, options) IN
       /\ destinations' = IF r.threw = Ok
                          THEN [destinations EXCEPT ![id] = <<[self |-> r.instance[1], given |-> options]>>]
                          ELSE destinations
       /\ last' = Op("Destination.ecr", id, None, None, options, Undefined, FALSE, r.threw, <<>>, <<>>)
  /\ UNCHANGED <<sources, assetChildren, grantCalls, bindLog, tagArg, tagResult>>

\* what every bind call does with the outcome r of its variant
Bind(op, id, scope, role, uri, r) ==
  /\ grantCalls' = grantCalls \o r.calls
  /\ bindLog' = IF r.threw = Ok
                THEN Append(bindLog, [id |-> id, scope |-> scope, role |-> role])
                ELSE bindLog
  /\ last' = Op(op, id, scope, role, <<>>, uri, Bound(id), r.threw, r.calls, r.config)

\* DirectorySource.bind(scope, {handlerRole: role}); the DockerImageAsset it
\* creates becomes the child 'asset' of scope and has some imageUri
DirectorySourceBindCall(id, scope, role, imageUri) ==
  /\ sources[id] # <<>>
  /\ sources[id][1].self.kind = "directory"
  /\ Len(bindLog) < MaxBinds
  /\ Bind("DirectorySource.bind", id, scope, role, imageUri,
          DirectorySourceBind(sources[id][1].self, scope, role, assetChildren, imageUri))
  /\ assetChildren' = assetChildren \cup {scope}
  /\ UNCHANGED <<sources, destinations, tagArg, tagResult>>

\* EcrSource.bind(_scope, {handlerRole: role}); the scope is not read
EcrSourceBindCall(id, scope, role) ==
  /\ sources[id] # <<>>
  /\ sources[id][1].self.kind = "ecr"
  /\ Len(bindLog) < MaxBinds
  /\ Bind("EcrSource.bind", id, None, role, Undefined,
          EcrSourceBind(sources[id][1].self, scope, role))
  /\ UNCHANGED <<sources, destinations, assetChildren, tagArg, tagResult>>

\* AssetSource.bind(scope, {handlerRole: role})
AssetSourceBindCall(id, scope, role) ==
  /\ sources[id] # <<>>
  /\ sources[id][1].self.kind = "asset"
  /\ Len(bindLog) < MaxBinds
  /\ Bind("AssetSource.bind", id, scope, role, sources[id][1].uri,
          AssetSourceBind(sources[id][1].self, scope, role))
  /\ UNCHANGED <<sources, destinations, assetChildren, tagArg, tagResult>>

\* EcrDestination.bind(role)
EcrDestinationBindCall(id, role) ==
  /\ destinations[id] # <<>>
  /\ Len(bindLog) < MaxBinds
  /\ Bind("EcrDestination.bind", id, None, role, Undefined,
          EcrDestinationBind(destinations[id][1].self, role))
  /\ UNCHANGED <<sources, destinations, assetChildren, tagArg, tagResult>>

Next ==
  \/ \E id \in SourceIds, path \in Paths : SourceDirectory(id, path)
  \/ \E id \in SourceIds, repository \in Repositories, tag \in SourceTags : SourceEcr(id, repository, tag)
  \/ \E id \in SourceIds, asset \in Assets : SourceAsset(id, asset)
  \/ \E id \in DestinationIds, repository \in Repositories, options \in DestinationOptions :
       DestinationEcr(id, repository, options)
  \/ \E id \in SourceIds, scope \in Scopes, role \in Roles, imageUri \in ImageUris :
       DirectorySourceBindCall(id, scope, role, imageUri)
  \/ \E id \in SourceIds, scope \in Scopes, role \in Roles : EcrSourceBindCall(id, scope, role)
  \/ \E id \in SourceIds, scope \in Scopes, role \in Roles : AssetSourceBindCall(id, scope, role)
  \/ \E id \in DestinationIds, role \in Roles : EcrDestinationBindCall(id, role)

Spec == Init /\ [][Next]_vars

----------------------------------------------------------------------------
(* validateTag on its own: the tag is drawn at the start, the call applies *)
(* the validator to it                                                     *)

InitTag ==
  /\ sources = [id \in SourceIds |-> <<>>]
  /\ destinations = [id \in DestinationIds |-> <<>>]
  /\ assetChildren = {}
  /\ grantCalls = <<>>
  /\ bindLog = <<>>
  /\ last = NoOp
  /\ tagArg \in TagInputs
  /\ tagResult = None

ValidateTagCall ==
  /\ tagResult = None
  /\ tagResult' = validateTag(tagArg)
  /\ UNCHANGED <<sources, destinations, assetChildren, grantCalls, bindLog, last, tagArg>>

NextTag == ValidateTagCall

SpecTag == InitTag /\ [][NextTag]_vars

----------------------------------------------------------------------------
(* Properties *)

\* a tag as the registry's rules describe it: 1 to 128 characters of
\* [A-Za-z0-9_.-], the first neither '-' nor '.'
WellFormedTag(t) ==
  /\ Len(t) >= 1
  /\ Len(t) <= MaxTagLength
  /\ \A i \in 1..Len(t) : t[i] \in TagClass
  /\ t[1] \notin {"-", "."}

Validated == tagResult # None

\* C1: every well-formed tag, those of length 1 included, passes validateTag.
C1_WellFormedTagsPass == (Validated /\ WellFormedTag(tagArg)) => tagResult = Ok

\* C2: a tag validateTag accepts has only characters of [A-Za-z0-9_.-], at
\* position 0 too; a tag of at most 128 characters with a character outside
\* the set is rejected with the invalid-characters error.
C2_AcceptedTagsHaveOnlyTagCharacters ==
  Validated =>
    /\ tagResult = Ok => \A i \in 1..Len(tagArg) : tagArg[i] \in TagClass
    /\ (Len(tagArg) <= MaxTagLength /\ \E i \in 1..Len(tagArg) : tagArg[i] \notin TagClass)
         => tagResult = TagInvalidCharacters

\* C3: a tag of more than 128 characters fails with the too-long error,
\* whatever its characters, and that error is not the invalid-characters one.
C3_LongTagsFailTooLong ==
  (Validated /\ Len(tagArg) > MaxTagLength) =>
    /\ tagResult = TagTooLong
    /\ tagResult # TagInvalidCharacters

\* a tag that is too long and has a character outside the set was validated
C3_Witness ==
  /\ tagResult = TagTooLong
  /\ \E i \in 1..Len(tagArg) : tagArg[i] \notin TagClass

\* C4: Destination.ecr with a tag that validateTag rejects throws that error,
\* produces no instance and leaves the grants as they were.
C4_InvalidTagAbortsConstruction ==
  [][ (/\ last'.op = "Destination.ecr"
       /\ OptionsTag(last'.options) # Undefined
       /\ validateTag(OptionsTag(last'.options)) # Ok)
      => /\ last'.threw = validateTag(OptionsTag(last'.options))
         /\ destinations' = destinations
         /\ destinations'[last'.id] = <<>>
         /\ grantCalls' = grantCalls
         /\ bindLog' = bindLog ]_vars

\* a construction was aborted after a grant had been issued, and neither an
\* instance nor a further grant came of it
C4_Witness ==
  /\ last.op = "Destination.ecr"
  /\ last.threw = TagInvalidCharacters
  /\ destinations[last.id] = <<>>
  /\ Len(grantCalls) = 1

IsSourceUriBind == last.op \in {"DirectorySource.bind", "AssetSource.bind"}

LastSep(s, sep) == CHOOSE i \in 1..Len(s) : s[i] = sep /\ \A j \in (i + 1)..Len(s) : s[j] # sep

AfterLastSep(s, sep) == SubSeq(s, LastSep(s, sep) + 1, Len(s))

\* C5: the imageTag a Directory or Asset source returns is what follows the
\* last ':' of the image URI.
C5_TagFollowsLastColon ==
  (IsSourceUriBind /\ last.threw = Ok /\ HasSep(last.uri, ":"))
    => last.config[1].imageTag = AfterLastSep(last.uri, ":")

MalformedImageReference == "MalformedImageReference"

\* C6: a Directory or Asset source whose image URI is empty or has no ':'
\* fails with MalformedImageReference and returns no config.
C6_UriWithoutColonFails ==
  (IsSourceUriBind /\ last.threw # ConstructExists /\ ~HasSep(last.uri, ":"))
    => /\ last.threw = MalformedImageReference
       /\ last.config = <<>>

IsBind(o) == o.op \in {"DirectorySource.bind", "EcrSource.bind", "AssetSource.bind", "EcrDestination.bind"}

AlreadyBound == "AlreadyBound"

\* C7: the first bind on an instance succeeds and every later bind on it is
\* rejected with AlreadyBound, returning no config and issuing no grant.
C7_RebindRejected ==
  IsBind(last) =>
    /\ ~last.rebind => last.threw = Ok
    /\ last.rebind => (last.threw = AlreadyBound /\ last.config = <<>> /\ last.calls = <<>>)

\* C7 as amended: no bind is guarded by a lifecycle state.  A bind of an Ecr
\* source, an Asset source or an Ecr destination, the first and every later
\* one, succeeds, returns a config and issues one grant call; a bind of a
\* Directory source does so unless its scope already has a child 'asset',
\* and then fails with the duplicate-construct error, without config or
\* grant.  AlreadyBound is never raised.
C7_RebindSucceeds ==
  [][ IsBind(last') =>
        /\ last'.threw # AlreadyBound
        /\ last'.threw = ConstructExists
             <=> (last'.op = "DirectorySource.bind" /\ last'.scope \in assetChildren)
        /\ last'.threw = ConstructExists
             => (last'.config = <<>> /\ last'.calls = <<>> /\ grantCalls' = grantCalls)
        /\ last'.threw # ConstructExists
             => /\ last'.threw = Ok
                /\ Len(last'.config) = 1
                /\ Len(last'.calls) = 1
                /\ grantCalls' = grantCalls \o last'.calls ]_vars

\* an instance that was bound before was bound again, returned a config and
\* issued a grant
C7_Witness ==
  /\ IsBind(last)
  /\ last.rebind
  /\ last.threw = Ok
  /\ Len(last.config) = 1
  /\ Len(last.calls) = 1

\* the repository of the source that bind e was called on
SourceRepositoryOf(e) ==
  IF sources[e.id][1].self.kind = "directory" THEN AssetRepository(e.scope)
  ELSE sources[e.id][1].self.repository

\* the one grant a bind is to issue
GrantOf(e) ==
  IF e.id \in SourceIds THEN GrantPull(SourceRepositoryOf(e), e.role)
  ELSE GrantPullPush(destinations[e.id][1].self.repository, e.role)

\* what a grant method lets the grantee do
Permissions(method) == IF method = "grantPull" THEN {"pull"} ELSE {"pull", "push"}

\* what the role holds: permission and repository
Held(role) ==
  UNION { {<<perm, grantCalls[k].repository>> : perm \in Permissions(grantCalls[k].method)} :
          k \in {j \in 1..Len(grantCalls) : grantCalls[j].grantee = role} }

\* one source and one destination have been bound, each once, with the role
BoundOneEach(role) ==
  /\ Len(bindLog) = 2
  /\ \E k \in 1..2 : bindLog[k].id \in SourceIds
  /\ \E k \in 1..2 : bindLog[k].id \in DestinationIds
  /\ bindLog[1].role = role
  /\ bindLog[2].role = role

LoggedBind(ids) == IF bindLog[1].id \in ids THEN bindLog[1] ELSE bindLog[2]

\* C8: the grant calls are exactly those of the binds that returned, one per
\* bind and in their order: pull on the source's repository for a source,
\* pull and push on the destination's repository for a destination, to the
\* identity given; constructors add none.  So an identity that one source
\* and one destination were bound with holds pull on the source's
\* repository and pull and push on the destination's, and nothing else.
C8_OneGrantPerBind ==
  /\ Len(grantCalls) = Len(bindLog)
  /\ \A k \in 1..Len(bindLog) : grantCalls[k] = GrantOf(bindLog[k])
  /\ (IsBind(last) /\ last.threw = Ok) => Len(last.calls) = 1
  /\ ~IsBind(last) => last.calls = <<>>
  /\ \A role \in Roles :
       BoundOneEach(role) =>
         /\ Held(role) = {<<"pull", SourceRepositoryOf(LoggedBind(SourceIds))>>}
                         \cup {<<"pull", destinations[LoggedBind(DestinationIds).id][1].self.repository>>,
                               <<"push", destinations[LoggedBind(DestinationIds).id][1].self.repository>>}
         /\ \A other \in Roles \ {role} : Held(other) = {}

\* a destination and then a source were bound with the same identity
C8_Witness ==
  /\ Len(bindLog) = 2
  /\ bindLog[1].id \in DestinationIds
  /\ bindLog[2].id \in SourceIds
  /\ bindLog[1].role = bindLog[2].role
  /\ Len(grantCalls) = 2

\* C9: the LoginConfig a bind returns has loginType ECR and is built from the
\* account and region of the repository the bind granted on.
C9_LoginOfOwningRepository ==
  (IsBind(last) /\ last.threw = Ok) =>
    last.config[1].loginConfig =
      [loginCommand |-> LoginCommand(last.calls[1].repository.env.account,
                                     last.calls[1].repository.env.region),
       loginType |-> ECR,
       region |-> last.calls[1].repository.env.region]

\* C10: Destination.ecr without a tag succeeds, and the destinationTag bind
\* returns is the tag the instance was constructed with: undefined when
\* there were no options or options without a tag, the tag itself otherwise.
C10_DestinationTagIsGivenTag ==
  /\ (last.op = "Destination.ecr" /\ OptionsTag(last.options) = Undefined) => last.threw = Ok
  /\ last.op = "EcrDestination.bind" =>
       /\ last.threw = Ok
       /\ last.config[1].destinationTag = OptionsTag(destinations[last.id][1].given)

\* a destination constructed with a tag of the maximal length was bound
C10_Witness ==
  /\ last.op = "EcrDestination.bind"
  /\ destinations[last.id][1].given = <<[tag |-> Repeat("a", MaxTagLength)]>>
  /\ last.config[1].destinationTag = Repeat("a", MaxTagLength)

====
